---- MODULE Spec2Model ----
(***************************************************************************)
(* Model of tools/spy_parser.py: parse_log_file, the Legion Spy log        *)
(* parser.  A log line is abstracted to the keyword phrase that follows    *)
(* the "[node - thread] {..}{legion_spy}: " prefix and the sequence of     *)
(* numeric fields after it.  The state object (spy_analysis) is not part   *)
(* of the sources; its mutation calls follow the contract of the design    *)
(* document: a call returns false without effect when an entity it         *)
(* references is absent, and commits and returns true otherwise.           *)
(***************************************************************************)
EXTENDS Integers, Sequences, FiniteSets, TLC

\* Longest log the model reads.
MaxLen == 3

(***************************************************************************)
(* The record grammars (spy_parser.py lines 24-70).  A line is read as the *)
(* words and numbers that follow the "[node - thread] {..}{legion_spy}: "  *)
(* prefix.  A pattern is a keyword phrase followed by `arity` fields; a    *)
(* field is [0-9]+ unless it is listed as a [0-1] flag or as a \w+ name.   *)
(* re.match anchors at the start of the line only, so a pattern accepts    *)
(* any line that begins with its tokens.                                   *)
(***************************************************************************)
Pat(phrase, arity, flags) == [phrase |-> phrase, arity |-> arity, flags |-> flags]

Pattern(p) ==
  CASE p = "utility_pat"        -> Pat(<<"Utility">>, 1, {})
    [] p = "processor_pat"      -> Pat(<<"Processor">>, 3, {})
    [] p = "memory_pat"         -> Pat(<<"Memory">>, 2, {})
    [] p = "proc_mem_pat"       -> Pat(<<"Processor", "Memory">>, 4, {})
    [] p = "mem_mem_pat"        -> Pat(<<"Memory", "Memory">>, 4, {})
    [] p = "top_index_pat"      -> Pat(<<"Index", "Space">>, 1, {})
    [] p = "index_part_pat"     -> Pat(<<"Index", "Partition">>, 4, {3})
    [] p = "index_subspace_pat" -> Pat(<<"Index", "Subspace">>, 3, {})
    [] p = "field_space_pat"    -> Pat(<<"Field", "Space">>, 1, {})
    [] p = "field_create_pat"   -> Pat(<<"Field", "Creation">>, 2, {})
    [] p = "region_pat"         -> Pat(<<"Region">>, 3, {})
    [] p = "top_task_pat"       -> Pat(<<"Top", "Task">>, 3, {})
    [] p = "single_task_pat"    -> Pat(<<"Individual", "Task">>, 4, {})
    [] p = "index_task_pat"     -> Pat(<<"Index", "Task">>, 4, {})
    [] p = "mapping_pat"        -> Pat(<<"Mapping", "Operation">>, 2, {})
    [] p = "close_pat"          -> Pat(<<"Close", "Operation">>, 2, {})
    [] p = "copy_op_pat"        -> Pat(<<"Copy", "Operation">>, 2, {})
    [] p = "deletion_pat"       -> Pat(<<"Deletion", "Operation">>, 2, {})
    [] p = "index_slice_pat"    -> Pat(<<"Index", "Slice">>, 2, {})
    [] p = "slice_slice_pat"    -> Pat(<<"Slice", "Slice">>, 2, {})
    [] p = "slice_point_pat"    -> Pat(<<"Slice", "Point">>, 6, {})
    [] p = "point_point_pat"    -> Pat(<<"Point", "Point">>, 2, {})
    [] p = "requirement_pat"    -> Pat(<<"Logical", "Requirement">>, 9, {3})
    [] p = "req_field_pat"      -> Pat(<<"Logical", "Requirement", "Field">>, 3, {})
    [] p = "mapping_dep_pat"    -> Pat(<<"Mapping", "Dependence">>, 6, {})
    [] p = "task_inst_req_pat"  -> Pat(<<"Task", "Instance", "Requirement">>, 3, {})
    [] p = "event_event_pat"    -> Pat(<<"Event", "Event">>, 4, {})
    [] p = "implicit_event_pat" -> Pat(<<"Implicit", "Event">>, 4, {})
    [] p = "op_event_pat"       -> Pat(<<"Op", "Events">>, 5, {})
    [] p = "copy_event_pat"     -> Pat(<<"Copy", "Events">>, 11, {})
    [] p = "physical_inst_pat"  -> Pat(<<"Physical", "Instance">>, 5, {})
    [] p = "physical_reduc_pat" -> Pat(<<"Reduction", "Instance">>, 7, {6})
    [] p = "op_user_pat"        -> Pat(<<"Op", "Instance", "User">>, 3, {})

\* The fields written \w+ (the task names, lines 41-43).
NameFields(p) ==
  CASE p = "top_task_pat"                            -> {3}
    [] p \in { "single_task_pat", "index_task_pat" } -> {4}
    [] OTHER                                         -> {}

\* The tokens of a line: the words of its phrase, then its numbers.
Tokens(line) ==
  [j \in 1..(Len(line.phrase) + Len(line.args)) |->
     IF j <= Len(line.phrase)
     THEN [word |-> TRUE, text |-> line.phrase[j], val |-> 0]
     ELSE [word |-> FALSE, text |-> "", val |-> line.args[j - Len(line.phrase)]]]

\* Every field written \w+: a word is taken for a field.
FieldAcceptsAnyWord(p, f, tok) == TRUE

\* Whether field f of pattern p accepts the token.
FieldAccepts(p, f, tok) ==
  IF f \in NameFields(p) THEN TRUE
  ELSE IF f \in Pattern(p).flags THEN ~tok.word /\ tok.val \in {0, 1}
  ELSE ~tok.word

\* pattern.match(line) <> None
Match(p, line) ==
  LET pat == Pattern(p)
      n   == Len(pat.phrase)
      tok == Tokens(line)
  IN  /\ Len(tok) >= n + pat.arity
      /\ \A j \in 1..n : tok[j].word /\ tok[j].text = pat.phrase[j]
      /\ \A f \in 1..pat.arity : FieldAccepts(p, f, tok[n + f])

\* The order in which the initial scan tries the patterns (lines 81-244).
ScanChain ==
  << "utility_pat", "processor_pat", "memory_pat", "proc_mem_pat", "mem_mem_pat",
     "top_index_pat", "index_part_pat", "index_subspace_pat", "field_space_pat",
     "field_create_pat", "region_pat", "top_task_pat", "single_task_pat",
     "index_task_pat", "mapping_pat", "close_pat", "copy_op_pat", "deletion_pat",
     "index_slice_pat", "slice_slice_pat", "slice_point_pat", "point_point_pat",
     "requirement_pat", "req_field_pat", "mapping_dep_pat", "task_inst_req_pat",
     "event_event_pat", "implicit_event_pat", "op_event_pat", "copy_event_pat",
     "physical_inst_pat", "physical_reduc_pat", "op_user_pat" >>

\* The order in which a replay pass tries the patterns (lines 253-357).
ReplayChain ==
  << "processor_pat", "proc_mem_pat", "mem_mem_pat", "index_part_pat",
     "index_subspace_pat", "single_task_pat", "index_task_pat", "mapping_pat",
     "close_pat", "copy_op_pat", "slice_point_pat", "point_point_pat",
     "requirement_pat", "req_field_pat", "mapping_dep_pat", "task_inst_req_pat",
     "op_event_pat", "copy_event_pat", "physical_inst_pat", "physical_reduc_pat",
     "op_user_pat" >>

\* The branches of the initial scan that ignore the value the call returns
\* (lines 83, 92, 107, 121, 136, 213, 217).
ScanIgnoresVerdict ==
  { "utility_pat", "memory_pat", "top_index_pat", "field_space_pat",
    "top_task_pat", "event_event_pat", "implicit_event_pat" }

\* The first pattern of the chain that matches the line, "none" when no
\* pattern does (the if / continue cascade).
FirstMatch(chain, line) ==
  IF \E k \in 1..Len(chain) : Match(chain[k], line)
  THEN chain[CHOOSE k \in 1..Len(chain) :
               /\ Match(chain[k], line)
               /\ \A j \in 1..(k - 1) : ~Match(chain[j], line)]
  ELSE "none"

(***************************************************************************)
(* The state object.  Entities are tagged tuples.  Requires gives the      *)
(* entities a call references, Commits the entities and edges it adds.     *)
(***************************************************************************)
Requires(p, a) ==
  CASE p = "processor_pat"      -> { <<"utility", a[2]>> }
    [] p = "proc_mem_pat"       -> { <<"processor", a[1]>>, <<"memory", a[2]>> }
    [] p = "mem_mem_pat"        -> { <<"memory", a[1]>>, <<"memory", a[2]>> }
    [] p = "index_part_pat"     -> { <<"index_space", a[1]>> }
    [] p = "index_subspace_pat" -> { <<"index_partition", a[1]>> }
    [] p = "field_create_pat"   -> { <<"field_space", a[1]>> }
    [] p = "region_pat"         -> { <<"index_space", a[1]>>, <<"field_space", a[2]>> }
    [] p \in { "single_task_pat", "index_task_pat", "mapping_pat", "close_pat",
               "copy_op_pat", "deletion_pat", "index_slice_pat", "requirement_pat",
               "task_inst_req_pat", "op_event_pat" }
                                -> { <<"op", a[1]>> }
    [] p \in { "slice_slice_pat", "slice_point_pat" }
                                -> { <<"slice", a[1]>> }
    [] p = "point_point_pat"    -> { <<"point", a[1]>> }
    [] p = "req_field_pat"      -> { <<"requirement", a[1], a[2]>> }
    [] p = "mapping_dep_pat"    -> { <<"op", a[2]>>, <<"op", a[4]>> }
    [] p = "event_event_pat"    -> { <<"event", a[1], a[2]>>, <<"event", a[3], a[4]>> }
    [] p = "copy_event_pat"     -> { <<"instance", a[1]>>, <<"instance", a[2]>> }
    [] p \in { "physical_inst_pat", "physical_reduc_pat" }
                                -> { <<"memory", a[2]>> }
    [] p = "op_user_pat"        -> { <<"op", a[1]>>, <<"instance", a[3]>> }
    [] OTHER                    -> {}

Commits(p, a) ==
  CASE p = "utility_pat"        -> { <<"utility", a[1]>> }
    [] p = "processor_pat"      -> { <<"processor", a[1]>> }
    [] p = "memory_pat"         -> { <<"memory", a[1]>> }
    [] p = "proc_mem_pat"       -> { <<"proc_mem", a[1], a[2]>> }
    [] p = "mem_mem_pat"        -> { <<"mem_mem", a[1], a[2]>> }
    [] p = "top_index_pat"      -> { <<"index_space", a[1]>> }
    [] p = "index_part_pat"     -> { <<"index_partition", a[2]>> }
    [] p = "index_subspace_pat" -> { <<"index_space", a[2]>> }
    [] p = "field_space_pat"    -> { <<"field_space", a[1]>> }
    [] p = "field_create_pat"   -> { <<"field", a[1], a[2]>> }
    [] p = "region_pat"         -> { <<"region", a[1], a[2], a[3]>> }
    [] p = "top_task_pat"       -> { <<"op", a[2]>> }
    [] p \in { "single_task_pat", "index_task_pat" }
                                -> { <<"op", a[3]>> }
    [] p \in { "mapping_pat", "close_pat", "copy_op_pat", "deletion_pat" }
                                -> { <<"op", a[2]>> }
    [] p \in { "index_slice_pat", "slice_slice_pat" }
                                -> { <<"slice", a[2]>> }
    [] p \in { "slice_point_pat", "point_point_pat" }
                                -> { <<"point", a[2]>> }
    [] p = "requirement_pat"    -> { <<"requirement", a[1], a[2]>> }
    [] p = "req_field_pat"      -> { <<"req_field", a[1], a[2], a[3]>> }
    [] p = "mapping_dep_pat"    -> { <<"mapping_dep", a[2], a[4]>> }
    [] p = "task_inst_req_pat"  -> { <<"inst_req", a[1], a[2]>> }
    [] p = "event_event_pat"    -> { <<"event_dep", a[1], a[3]>> }
    [] p = "implicit_event_pat" -> { <<"implicit_dep", a[1], a[3]>> }
    [] p = "op_event_pat"       -> { <<"event", a[2], a[3]>>, <<"event", a[4], a[5]>> }
    [] p = "copy_event_pat"     -> { <<"event", a[6], a[7]>>, <<"event", a[8], a[9]>> }
    [] p \in { "physical_inst_pat", "physical_reduc_pat" }
                                -> { <<"instance", a[1]>> }
    [] p = "op_user_pat"        -> { <<"op_user", a[1], a[3]>> }

\* The value a mutation call returns in state st ...
Verdict(p, a, st) == Requires(p, a) \subseteq st

\* ... and the state it leaves.
Apply(p, a, st) == IF Verdict(p, a, st) THEN st \cup Commits(p, a) ELSE st


(***************************************************************************)
(* The log lines the model draws its logs from.                            *)
(***************************************************************************)
Line(phrase, args) == [phrase |-> phrase, args |-> args]

LogLines ==
  { Line(<<"Utility">>, <<1>>),
    Line(<<"Processor">>, <<7, 1, 0>>),
    Line(<<"Memory">>, <<3, 0>>),
    Line(<<"Index", "Space">>, <<2>>),
    Line(<<"Field", "Space">>, <<1>>),
    Line(<<"Field", "Creation">>, <<1, 1>>),
    Line(<<"Index", "Subspace">>, <<9, 1, 0>>),
    Line(<<"Top", "Task">>, <<0, 1, 0>>),
    Line(<<"Individual", "Task">>, <<1, 0, 2, 0>>),
    Line(<<"Mapping", "Operation">>, <<2, 3>>),
    Line(<<"Event", "Event">>, <<1, 0, 2, 0>>),
    Line(<<"Shutdown">>, << >>) }

Logs == UNION { [1..n -> LogLines] : n \in 0..MaxLen }

(***************************************************************************)
(* List helpers of the removal loop (lines 364-365).                       *)
(***************************************************************************)
RemoveAt(s, k) == [j \in 1..(Len(s) - 1) |-> IF j < k THEN s[j] ELSE s[j + 1]]

\* list.index(x): the first position holding x
IndexOf(s, x) == CHOOSE k \in 1..Len(s) : s[k] = x /\ \A j \in 1..(k - 1) : s[j] # x

\* list.remove(x): drops the first occurrence of x
ListRemove(s, x) == RemoveAt(s, IndexOf(s, x))

\* The orders in which "for line in to_delete" can visit the set
Orders(S) ==
  { f \in [1..Cardinality(S) -> S] : \A a, b \in 1..Cardinality(S) : f[a] = f[b] => a = b }

\* The loop left after its first iteration.
RemoveFirstOnly(s, idseq, order) ==
  IF order = << >> THEN [lines |-> s, ids |-> idseq]
  ELSE [lines |-> ListRemove(s, order[1]),
        ids   |-> RemoveAt(idseq, IndexOf(s, order[1]))]

\* for line in to_delete: replay_lines.remove(line), the set visited in the
\* given order; ids is the same loop followed on the log positions of the
\* entries.
RECURSIVE RemoveEntries(_, _, _)
RemoveEntries(s, idseq, order) ==
  IF order = << >> THEN [lines |-> s, ids |-> idseq]
  ELSE RemoveEntries(ListRemove(s, order[1]),
                     RemoveAt(idseq, IndexOf(s, order[1])),
                     Tail(order))

Range(s) == { s[k] : k \in 1..Len(s) }

(***************************************************************************)
(* State of one call of parse_log_file.                                    *)
(***************************************************************************)
VARIABLES
  log,           \* the lines of the file
  pos,           \* position of the scan in the file
  matches,       \* the counter the function returns
  replay_lines,  \* lines whose call returned false
  state,         \* the entities and edges committed to the state object
  to_delete,     \* lines whose call returned true in the current pass
  i,             \* position of the current pass in replay_lines
  pc,            \* "scan", "while", "replay", "done" (returned), "fatal" (assert)
  out,           \* what the function has printed
  \* history of the run, read by the properties only
  ids,           \* log position of each entry of replay_lines
  verdicts,      \* per log position: outcome of the scan
  appended,      \* per log position: times appended to replay_lines
  passes,        \* replay passes started
  sizeAtStart,   \* len(replay_lines) when the current pass started
  calls,         \* per log position: mutation calls issued in the current pass
  okPass,        \* log positions whose call returned true in the current pass
  succeeded,     \* log positions for which some call has returned true
  reissued,      \* log positions called again after a call returned true
  trace,         \* the mutation calls issued so far, in order
  driver,        \* state of run_tests (src/test.py)
  run,           \* 1; 2 for the run on the reordered log; 3 for the run on
                 \* the log without its unmatched lines
  first          \* outcome of run 1, kept for the later run

prog == << log, pos, matches, replay_lines, state, to_delete, i, pc, out >>
hist == << ids, verdicts, appended, passes, sizeAtStart, calls, okPass,
           succeeded, reissued, trace >>
vars == << prog, hist, run, first, driver >>

None == [outcome |-> "none", state |-> {}, matches |-> 0]

\* run_tests is not called.
Idle == [pc |-> "idle"]

\* One mutation call: state.add_x(fields), issued for log position id
Call(phase, p, a, id) == [phase |-> phase, kind |-> p, args |-> a, id |-> id]

Start(l) ==
  /\ log = l
  /\ pos = 1
  /\ matches = 0
  /\ replay_lines = << >>
  /\ state = {}
  /\ to_delete = {}
  /\ i = 1
  /\ pc = "scan"
  /\ out = << >>
  /\ ids = << >>
  /\ verdicts = [k \in 1..Len(l) |-> "pending"]
  /\ appended = [k \in 1..Len(l) |-> 0]
  /\ passes = 0
  /\ sizeAtStart = 0
  /\ calls = [k \in 1..Len(l) |-> 0]
  /\ okPass = {}
  /\ succeeded = {}
  /\ reissued = {}
  /\ trace = << >>

Init ==
  /\ \E l \in Logs : Start(l)
  /\ run = 1
  /\ first = None
  /\ driver = Idle

\* print "Skipping unmatched line: "+line (line 247)
Skipping(line) == [text |-> "Skipping unmatched line: ", line |-> line]

\* print "ERROR: NO PROGRESS PARSING! ..." (line 361)
NoProgressError ==
  [text |-> "ERROR: NO PROGRESS PARSING! BUG IN LEGION SPY LOGGING ASSUMPTIONS!",
   line |-> Line(<< >>, << >>)]

\* The replay loop entered after the first line (written inside the scan loop).
ScanDoneEarly == pos > Len(log) \/ pos > 1

\* "for line in log" is exhausted
ScanDone == pos > Len(log)

\* The decrement forgotten.
UncountForgotten(m) == m

\* "matches = matches - 1" (line 246)
Uncount(m) == m - 1

\* The test inverted: "if state.add_x(...)".
DefersInverted(p, ok) == p \notin ScanIgnoresVerdict /\ ok

\* Every branch written in the checked form: a call whose value the parser
\* does not look at returns nothing, which "if not" reads as false.
DefersCheckingAll(p, ok) == ~(ok /\ p \notin ScanIgnoresVerdict)

\* "if not state.add_x(...): replay_lines.append(line)"
Defers(p, ok) == p \notin ScanIgnoresVerdict /\ ~ok

\* The state a call leaves when it returns ok.
Effect(p, a, st, ok) == IF ok THEN st \cup Commits(p, a) ELSE st

\* One iteration of the scan loop (lines 78-247), the call returning ok.
ScanStep(ok) ==
  /\ pc = "scan"
  /\ ~ScanDone
  /\ LET line == log[pos]
         p    == FirstMatch(ScanChain, line)
     IN  IF p = "none"
         THEN /\ matches' = Uncount(matches + 1)
              /\ out' = Append(out, Skipping(line))
              /\ verdicts' = [verdicts EXCEPT ![pos] = "unmatched"]
              /\ UNCHANGED << replay_lines, state, ids, appended, succeeded, trace >>
         ELSE /\ matches' = matches + 1
              /\ state' = Effect(p, line.args, state, ok)
              /\ trace' = Append(trace, Call("scan", p, line.args, pos))
              /\ verdicts' = [verdicts EXCEPT ![pos] = IF ok THEN "true" ELSE "false"]
              /\ succeeded' = IF ok THEN succeeded \cup {pos} ELSE succeeded
              /\ IF Defers(p, ok)
                 THEN /\ replay_lines' = Append(replay_lines, line)
                      /\ ids' = Append(ids, pos)
                      /\ appended' = [appended EXCEPT ![pos] = @ + 1]
                 ELSE UNCHANGED << replay_lines, ids, appended >>
              /\ out' = out
  /\ pos' = pos + 1
  /\ UNCHANGED << log, to_delete, i, pc, passes, sizeAtStart, calls, okPass,
                  reissued, run, first, driver >>

\* The scan step against the state object.
ScanLine ==
  ScanStep(Verdict(FirstMatch(ScanChain, log[pos]), log[pos].args, state))

\* End of the file: log.close() (line 248).
EndScan ==
  /\ pc = "scan"
  /\ ScanDone
  /\ pc' = "while"
  /\ UNCHANGED << log, pos, matches, replay_lines, state, to_delete, i, out,
                  hist, run, first, driver >>

\* "while len(replay_lines) > 0" taken: a pass starts (lines 250-252).
StartPass ==
  /\ pc = "while"
  /\ Len(replay_lines) > 0
  /\ to_delete' = {}
  /\ i' = 1
  /\ pc' = "replay"
  /\ passes' = IF passes <= MaxLen + 1 THEN passes + 1 ELSE passes
  /\ sizeAtStart' = Len(replay_lines)
  /\ calls' = [k \in 1..Len(log) |-> 0]
  /\ okPass' = {}
  /\ UNCHANGED << log, pos, matches, replay_lines, state, out, ids, verdicts,
                  appended, succeeded, reissued, trace, run, first, driver >>

\* One iteration of "for line in replay_lines" (lines 252-357), the call
\* returning ok.
ReplayStep(ok) ==
  /\ pc = "replay"
  /\ i <= Len(replay_lines)
  /\ LET line == replay_lines[i]
         id   == ids[i]
         p    == FirstMatch(ReplayChain, line)
     IN  IF p = "none"
         THEN UNCHANGED << state, to_delete, calls, okPass, succeeded, reissued,
                           trace >>
         ELSE /\ state' = Effect(p, line.args, state, ok)
              /\ trace' = Append(trace, Call("replay", p, line.args, id))
              /\ to_delete' = IF ok THEN to_delete \cup {line} ELSE to_delete
              /\ calls' = [calls EXCEPT ![id] = @ + 1]
              /\ okPass' = IF ok THEN okPass \cup {id} ELSE okPass
              /\ succeeded' = IF ok THEN succeeded \cup {id} ELSE succeeded
              /\ reissued' = IF id \in succeeded THEN reissued \cup {id} ELSE reissued
  /\ i' = i + 1
  /\ UNCHANGED << log, pos, matches, replay_lines, pc, out, ids, verdicts,
                  appended, passes, sizeAtStart, run, first, driver >>

\* The replay step against the state object.
ReplayLine ==
  ReplayStep(Verdict(FirstMatch(ReplayChain, replay_lines[i]),
                     replay_lines[i].args, state))

\* The check and the removal written inside the for loop.
IterationOverEarly == i > 1 \/ i > Len(replay_lines)

\* "for line in replay_lines" is exhausted
IterationOver == i > Len(replay_lines)

\* The check dropped (as when the assertion is compiled out).
NoProgressNever(S) == FALSE

\* The check off by one.
NoProgressAtMostOne(S) == Cardinality(S) <= 1

\* "if len(to_delete) == 0"
NoProgress(S) == Cardinality(S) = 0

\* The pass resolved nothing: the error is printed, then assert False
\* (lines 360-362).
Stall ==
  /\ pc = "replay"
  /\ IterationOver
  /\ NoProgress(to_delete)
  /\ out' = Append(out, NoProgressError)
  /\ pc' = "fatal"
  /\ UNCHANGED << log, pos, matches, replay_lines, state, to_delete, i, hist,
                  run, first, driver >>

\* The pass resolved something: the removal loop, then back to the while
\* test (lines 364-365).
RemoveResolved ==
  /\ pc = "replay"
  /\ IterationOver
  /\ ~NoProgress(to_delete)
  /\ \E order \in Orders(to_delete) :
        LET r == RemoveEntries(replay_lines, ids, order)
        IN  replay_lines' = r.lines /\ ids' = r.ids
  /\ pc' = "while"
  /\ UNCHANGED << log, pos, matches, state, to_delete, i, out, verdicts,
                  appended, passes, sizeAtStart, calls, okPass, succeeded,
                  reissued, trace, run, first, driver >>

\* The while test fails: return matches (line 366).
Return ==
  /\ pc = "while"
  /\ Len(replay_lines) = 0
  /\ pc' = "done"
  /\ UNCHANGED << log, pos, matches, replay_lines, state, to_delete, i, out,
                  hist, run, first, driver >>

Next ==
  \/ ScanLine
  \/ EndScan
  \/ StartPass
  \/ ReplayLine
  \/ Stall
  \/ RemoveResolved
  \/ Return

Spec == Init /\ [][Next]_vars

(***************************************************************************)
(* Two runs: parse_log_file is called on a log, then on a fresh state      *)
(* object with the same lines in another order, or with one of the lines   *)
(* that no pattern matches taken out.                                      *)
(***************************************************************************)
Perms(n) == { f \in [1..n -> 1..n] : \A a, b \in 1..n : f[a] = f[b] => a = b }

\* What run 1 has left
Outcome == [outcome |-> pc, state |-> state, matches |-> matches]

\* A new call on log l with a fresh state object
Restart(l) ==
  /\ log' = l
  /\ pos' = 1
  /\ matches' = 0
  /\ replay_lines' = << >>
  /\ state' = {}
  /\ to_delete' = {}
  /\ i' = 1
  /\ pc' = "scan"
  /\ out' = << >>
  /\ ids' = << >>
  /\ verdicts' = [k \in 1..Len(l) |-> "pending"]
  /\ appended' = [k \in 1..Len(l) |-> 0]
  /\ passes' = 0
  /\ sizeAtStart' = 0
  /\ calls' = [k \in 1..Len(l) |-> 0]
  /\ okPass' = {}
  /\ succeeded' = {}
  /\ reissued' = {}
  /\ trace' = << >>
  /\ driver' = driver

Rerun ==
  /\ pc \in {"done", "fatal"}
  /\ run = 1
  /\ run' = 2
  /\ first' = Outcome
  /\ \E f \in Perms(Len(log)) : Restart([k \in 1..Len(log) |-> log[f[k]]])

NextPair == Next \/ Rerun

SpecPair == Init /\ [][NextPair]_vars

\* The second call is made on the log without one of its unmatched lines.
RerunWithout ==
  /\ pc \in {"done", "fatal"}
  /\ run = 1
  /\ run' = 3
  /\ first' = Outcome
  /\ \E k \in 1..Len(log) :
        /\ FirstMatch(ScanChain, log[k]) = "none"
        /\ Restart(RemoveAt(log, k))

NextWithout == Next \/ RerunWithout

SpecWithout == Init /\ [][NextWithout]_vars

\* What run 1 has left, with the calls it issued and its deferred set
OutcomeAndCalls ==
  [outcome |-> pc, state |-> state, matches |-> matches, trace |-> trace,
   deferred |-> replay_lines]

\* The second call is made on the same log.
RerunSame ==
  /\ pc \in {"done", "fatal"}
  /\ run = 1
  /\ run' = 4
  /\ first' = OutcomeAndCalls
  /\ Restart(log)

NextSame == Next \/ RerunSame

SpecSame == Init /\ [][NextSame]_vars

(***************************************************************************)
(* Any state object: each call returns true or false as it likes.  The     *)
(* logs hold a kind the replay retries, a kind it does not, a kind whose   *)
(* result the scan ignores and a line no pattern matches.                  *)
(***************************************************************************)
AnyLines ==
  { Line(<<"Processor">>, <<7, 1, 0>>),
    Line(<<"Field", "Creation">>, <<1, 1>>),
    Line(<<"Memory">>, <<3, 0>>),
    Line(<<"Shutdown">>, << >>) }

InitAny ==
  /\ \E l \in UNION { [1..n -> AnyLines] : n \in 0..MaxLen } : Start(l)
  /\ run = 1
  /\ first = None
  /\ driver = Idle

ScanLineAny == \E ok \in BOOLEAN : ScanStep(ok)

ReplayLineAny == \E ok \in BOOLEAN : ReplayStep(ok)

NextAny ==
  \/ ScanLineAny
  \/ EndScan
  \/ StartPass
  \/ ReplayLineAny
  \/ Stall
  \/ RemoveResolved
  \/ Return

\* The function runs to its end: no step waits for anything.
SpecAny == InitAny /\ [][NextAny]_vars /\ WF_vars(NextAny)

(***************************************************************************)
(* Sample logs: the machine-shape lines in every order up to ScenarioLen,  *)
(* and one line of every record kind on its own, with lines that fall      *)
(* short of a pattern or run past it.                                      *)
(***************************************************************************)
ScenarioLen == 4

ScenarioLines ==
  { Line(<<"Utility">>, <<1>>),
    Line(<<"Processor">>, <<7, 1, 0>>),
    Line(<<"Memory">>, <<3, 0>>),
    Line(<<"Processor", "Memory">>, <<7, 3, 0, 0>>) }

SampleLine(p) == Line(Pattern(p).phrase, [j \in 1..Pattern(p).arity |-> 1])

SampleLines ==
  { SampleLine(ScanChain[k]) : k \in 1..Len(ScanChain) } \cup
  { Line(<<"Processor">>, <<7, 1, 0, 5>>),
    Line(<<"Memory">>, <<3>>),
    Line(<<"Memory", "Memory">>, <<3, 3>>),
    Line(<<"Index", "Partition">>, <<1, 2, 5, 0>>),
    Line(<<"Logical", "Requirement">>, <<1, 2, 3>>),
    Line(<<"Index">>, <<1>>),
    Line(<<"Shutdown">>, << >>) }

InitSamples ==
  /\ \E l \in UNION { [1..n -> ScenarioLines] : n \in 0..ScenarioLen }
                \cup { <<x>> : x \in SampleLines } : Start(l)
  /\ run = 1
  /\ first = None
  /\ driver = Idle

SpecSamples == InitSamples /\ [][Next]_vars

(***************************************************************************)
(* Chain logs: operations of which each names the previous one as its      *)
(* context, in every order up to ChainLen.                                 *)
(***************************************************************************)
ChainLen == 4

ChainLines ==
  { Line(<<"Top", "Task">>, <<0, 1, 0>>),
    Line(<<"Individual", "Task">>, <<1, 0, 2, 0>>),
    Line(<<"Mapping", "Operation">>, <<2, 3>>),
    Line(<<"Close", "Operation">>, <<3, 4>>),
    Line(<<"Deletion", "Operation">>, <<2, 5>>) }

InitChain ==
  /\ \E l \in UNION { [1..n -> ChainLines] : n \in 0..ChainLen } : Start(l)
  /\ run = 1
  /\ first = None
  /\ driver = Idle

SpecChain == InitChain /\ [][Next]_vars

(***************************************************************************)
(* run_tests of the test driver (src/test.py).  The variable driver holds  *)
(* its arguments (the enabled test modules and features, keep_tmp_dir),    *)
(* its position, the temporary directory, and what has run so far.  A      *)
(* command is a call of cmd or of subprocess: it returns, or it raises.    *)
(***************************************************************************)
\* Length of the lists of tests (legion_cxx_tests and the like)
NumTests == 2

Stages ==
  << "build", "regent", "legion_cxx", "fuzzer", "realm", "external", "private",
     "perf" >>

TestStages == { Stages[n] : n \in 2..Len(Stages) }

\* run_cxx: with a bin_dir the test is run, without one it is made and run
RunCxx(tests, bin_dir) == IF bin_dir THEN tests ELSE 2 * tests

\* The commands a stage issues
Commands(name, d) ==
  CASE name = "build"      -> IF d.cmake THEN 3
                              ELSE IF "legion_cxx" \in d.enabled THEN NumTests ELSE 0
    [] name = "regent"     -> 1
    [] name = "legion_cxx" -> RunCxx(NumTests, d.cmake)
                                + (IF d.hdf THEN RunCxx(NumTests, d.cmake) ELSE 0)
    [] name = "fuzzer"     -> 2
    [] name = "realm"      -> 4
    [] name = "external"   -> 1 + RunCxx(1, FALSE) + 3
    [] name = "private"    -> 2 + 2
    [] name = "perf"       -> 1 + RunCxx(NumTests, d.cmake) + 1

\* The next "with Stage" the try block reaches after stage n (0: none)
NextStage(n, enabled) ==
  LET later == { m \in (n + 1)..Len(Stages) : m = 1 \/ Stages[m] \in enabled }
  IN  IF later = {} THEN 0 ELSE CHOOSE m \in later : \A x \in later : m <= x

\* The removal written after the try block instead of in "finally".
CleanupUnlessRaised(keep, tmp, error) == IF keep \/ error THEN tmp ELSE "removed"

\* The finally block: the directory after it
Cleanup(keep, tmp, error) == IF keep THEN tmp ELSE "removed"

\* The run goes on after a command that failed.
AfterFailureGoesOn == "stage"

\* Where a command that raises leaves run_tests: the exception leaves the
\* with block and the try block
AfterFailure == "finally"

DriverInit ==
  { [pc |-> "entry", enabled |-> e, keep |-> k, cmake |-> c, hdf |-> h,
     nolauncher |-> g, tmp |-> "none", stage |-> 0, left |-> 0,
     entered |-> << >>, exited |-> << >>, cmds |-> 0, error |-> FALSE] :
      e \in SUBSET TestStages, k \in BOOLEAN, c \in BOOLEAN, h \in BOOLEAN,
      g \in BOOLEAN }

InitDriver ==
  /\ Start(<< >>)
  /\ run = 1
  /\ first = None
  /\ driver \in DriverInit

\* GASNet is enabled and no launcher is given (line 288).
RaiseNoLauncher ==
  /\ driver.pc = "entry"
  /\ driver.nolauncher
  /\ driver' = [driver EXCEPT !.pc = "raised", !.error = TRUE]
  /\ UNCHANGED << prog, hist, run, first >>

\* tmp_dir = tempfile.mkdtemp(dir=root_dir), then the try block is entered.
Mkdtemp ==
  /\ driver.pc = "entry"
  /\ ~driver.nolauncher
  /\ driver' = [driver EXCEPT !.pc = "try", !.tmp = "exists"]
  /\ UNCHANGED << prog, hist, run, first >>

\* with Stage(name): __enter__
EnterStage ==
  /\ driver.pc = "try"
  /\ NextStage(driver.stage, driver.enabled) # 0
  /\ LET n == NextStage(driver.stage, driver.enabled)
     IN  driver' = [driver EXCEPT !.pc = "stage",
                                  !.stage = n,
                                  !.left = Commands(Stages[n], driver),
                                  !.entered = Append(@, Stages[n])]
  /\ UNCHANGED << prog, hist, run, first >>

\* A command of the stage returns.
CmdReturns ==
  /\ driver.pc = "stage"
  /\ driver.left > 0
  /\ driver' = [driver EXCEPT !.left = @ - 1, !.cmds = @ + 1]
  /\ UNCHANGED << prog, hist, run, first >>

\* A command of the stage exits with a non-zero status: check_call raises,
\* Stage.__exit__ runs and lets the exception through.
CmdRaises ==
  /\ driver.pc = "stage"
  /\ driver.left > 0
  /\ driver' = [driver EXCEPT !.pc = AfterFailure,
                              !.left = @ - 1,
                              !.cmds = @ + 1,
                              !.error = TRUE,
                              !.exited = Append(@, Stages[driver.stage])]
  /\ UNCHANGED << prog, hist, run, first >>

\* The body of the with block is over: __exit__
ExitStage ==
  /\ driver.pc = "stage"
  /\ driver.left = 0
  /\ driver' = [driver EXCEPT !.pc = "try", !.exited = Append(@, Stages[driver.stage])]
  /\ UNCHANGED << prog, hist, run, first >>

\* No stage is left: the try block is over.
EndTry ==
  /\ driver.pc = "try"
  /\ NextStage(driver.stage, driver.enabled) = 0
  /\ driver' = [driver EXCEPT !.pc = "finally"]
  /\ UNCHANGED << prog, hist, run, first >>

\* finally: the directory is kept or removed; then run_tests returns, or the
\* exception goes on to the caller.
Finally ==
  /\ driver.pc = "finally"
  /\ driver' = [driver EXCEPT !.tmp = Cleanup(driver.keep, driver.tmp, driver.error),
                              !.pc = IF driver.error THEN "raised" ELSE "returned"]
  /\ UNCHANGED << prog, hist, run, first >>

NextDriver ==
  \/ RaiseNoLauncher
  \/ Mkdtemp
  \/ EnterStage
  \/ CmdReturns
  \/ CmdRaises
  \/ ExitStage
  \/ EndTry
  \/ Finally

SpecDriver == InitDriver /\ [][NextDriver]_vars

(***************************************************************************)
(* Vocabulary of the properties.                                           *)
(***************************************************************************)
Positions == 1..Len(log)

\* The record kind of the line at log position k
Kind(k) == FirstMatch(ScanChain, log[k])

Finished == pc \in {"done", "fatal"}

\* A pass has visited every entry and its outcome is about to be decided.
PassOver == pc = "replay" /\ i > Len(replay_lines)

\* What the lines of the log commit when each is applied as soon as the
\* entities it references exist: the least fixpoint, whatever the order.
RECURSIVE Saturate(_)
Saturate(st) ==
  LET ready == { k \in Positions :
                   Kind(k) # "none" /\ Requires(Kind(k), log[k].args) \subseteq st }
      st2   == st \cup UNION { Commits(Kind(k), log[k].args) : k \in ready }
  IN  IF st2 = st THEN st ELSE Saturate(st2)

\* The record at position k can be applied at some point: what it references
\* is declared in the log, through no cycle.
Satisfiable(k) == Requires(Kind(k), log[k].args) \subseteq Saturate({})

Classifiable == \A k \in Positions : Kind(k) # "none"

WellFounded == \A k \in Positions : Kind(k) # "none" => Satisfiable(k)

(***************************************************************************)
(* C1  Order-invariance: two orderings of the same classifiable lines, in  *)
(* which everything referenced is declared and nothing depends on itself,  *)
(* leave the state object with the same entities and edges.                *)
(***************************************************************************)
C1_OrderInvariance ==
  (run = 2 /\ Finished /\ Classifiable /\ WellFounded) => state = first.state

(***************************************************************************)
(* C2  The replay reaches its fixpoint: when everything referenced is      *)
(* declared in the log and nothing depends on itself, the run does not end *)
(* in the stall, in any line order.                                        *)
(***************************************************************************)
C2_ReplaySucceeds == WellFounded => pc # "fatal"

(***************************************************************************)
(* C3  When a replay pass is over, exactly one mutation call has been      *)
(* issued in it for each entry of the deferred set.                        *)
(***************************************************************************)
C3_EachDeferredRetriedOnce ==
  PassOver => \A k \in 1..Len(ids) : calls[ids[k]] = 1

(***************************************************************************)
(* C4  Stall detection: a log holding a record that can never be applied   *)
(* never returns; when it stalls, the last pass resolved nothing and the   *)
(* deferred set holds exactly the records that can never be applied.       *)
(***************************************************************************)
C4_StallDetection ==
  (\E k \in Positions : Kind(k) # "none" /\ ~Satisfiable(k)) =>
     /\ pc # "done"
     /\ pc = "fatal" =>
          /\ okPass = {}
          /\ { ids[k] : k \in 1..Len(ids) } =
               { k \in Positions : Kind(k) # "none" /\ ~Satisfiable(k) }

(***************************************************************************)
(* C5  Progress monotonicity: a pass ends either in the stall, with the    *)
(* deferred set untouched, or with a strictly smaller deferred set; the    *)
(* while test is never reached with the size the pass started from.        *)
(***************************************************************************)
C5_ProgressMonotone ==
  [][ (pc = "replay" /\ pc' # "replay") =>
        \/ pc' = "fatal" /\ replay_lines' = replay_lines /\ Len(replay_lines) > 0
        \/ pc' = "while" /\ Len(replay_lines') < Len(replay_lines)
                         /\ Len(replay_lines) = sizeAtStart ]_vars

\* A pass has ended with a smaller deferred set that is not yet empty.
C5_Witness ==
  pc = "while" /\ passes >= 1 /\ Len(replay_lines) > 0 /\ Len(replay_lines) < sizeAtStart

(***************************************************************************)
(* C6  The entries removed at the end of a pass are exactly the entries    *)
(* whose mutation call returned true in that pass.                         *)
(***************************************************************************)
C6_RemovedIffTrue ==
  [][ (pc = "replay" /\ pc' = "while") => Range(ids) \ Range(ids') = okPass ]_vars

(***************************************************************************)
(* C7  No mutation call is issued for a record after a call for it has     *)
(* returned true.                                                          *)
(***************************************************************************)
C7_NoCallAfterTrue == reissued = {}

(***************************************************************************)
(* C8  Unconditional kinds are never deferred.  As claimed: processor,     *)
(* memory, index space, field space and top-level task declarations are    *)
(* resolved by the scan and never appended to the deferred set.            *)
(***************************************************************************)
NeverDeferred(kinds) ==
  \A k \in Positions :
    Kind(k) \in kinds => appended[k] = 0 /\ verdicts[k] \in {"pending", "true"}

C9_FalseVerdictDeferred ==
  \A k \in Positions : verdicts[k] = "false" => appended[k] >= 1

(***************************************************************************)
(* C10  The function returns only with an empty deferred set; it stalls    *)
(* only at the end of a full pass over a non-empty deferred set in which   *)
(* no call returned true, and every such pass stalls; with nothing         *)
(* deferred by the scan it returns without a pass.                         *)
(***************************************************************************)
C10_ReturnAndStall ==
  /\ pc = "done" => Len(replay_lines) = 0
  /\ pc = "fatal" => Len(replay_lines) > 0 /\ i > Len(replay_lines) /\ okPass = {}
  /\ (pc = "while" /\ passes >= 1) => okPass # {}
  /\ (Finished /\ \A k \in Positions : appended[k] = 0) => pc = "done" /\ passes = 0

\* The run stalled after a pass that had made progress.
C10_Witness == pc = "fatal" /\ passes >= 2

\* Records the initial scan has put in the deferred set
NumDeferred == Cardinality({ k \in Positions : appended[k] > 0 })

(***************************************************************************)
(* C11  Termination: whatever each mutation call returns, the run ends,    *)
(* by returning or by the stall, and the number of replay passes is at     *)
(* most the number of records the scan deferred plus one.                  *)
(***************************************************************************)
C11_Terminates == <>Finished /\ [](passes <= NumDeferred + 1)

\* A run that needed one pass for each of its deferred records.
C11_Witness == pc = "done" /\ passes >= 2 /\ passes = NumDeferred

\* The scan is at a line that no pattern matches.
AtUnmatched == pc = "scan" /\ pos <= Len(log) /\ Kind(pos) = "none"

(***************************************************************************)
(* C12  A line that matches no pattern has no effect: the scan step over   *)
(* it issues no call (the state object is untouched), defers nothing,      *)
(* leaves the count as it was and goes on to the next line; and the run    *)
(* on the log without that line ends the same way, with the same state     *)
(* object and the same count.                                              *)
(***************************************************************************)
C12_UnmatchedNoEffect ==
  /\ [][AtUnmatched =>
          /\ state' = state
          /\ replay_lines' = replay_lines
          /\ matches' = matches
          /\ pos' = pos + 1
          /\ pc' = "scan"]_vars
  /\ []((run = 3 /\ Finished) =>
          /\ pc = first.outcome
          /\ state = first.state
          /\ matches = first.matches)

\* The log without its unmatched line has been replayed to the end.
C12_Witness == run = 3 /\ pc = "done" /\ passes >= 1 /\ matches >= 2

\* The records the error report names
Reported ==
  { out[k].line : k \in { j \in 1..Len(out) : out[j].text = NoProgressError.text } }

(***************************************************************************)
(* C13  On the stall the records reported as unresolved are the content    *)
(* of the deferred set at that moment.                                     *)
(***************************************************************************)
C13_StallReportsDeferred == pc = "fatal" => Reported = Range(replay_lines)

(***************************************************************************)
(* C14  When the function returns, the count it returns is the number of   *)
(* records whose mutation call returned true.                              *)
(***************************************************************************)
C14_CountIsApplied == pc = "done" => matches = Cardinality(succeeded)

(***************************************************************************)
(* C15  Every line in the deferred set is classified by the replay loop    *)
(* as the record kind the scan classified it as (the fields of a kind are  *)
(* extracted by the same expressions in both loops).                       *)
(***************************************************************************)
C15_SameClassification ==
  \A k \in 1..Len(replay_lines) :
     FirstMatch(ReplayChain, replay_lines[k]) = FirstMatch(ScanChain, replay_lines[k])

\* The patterns that match a line
Kinds(line) == { p \in Range(ScanChain) : Match(p, line) }

(***************************************************************************)
(* C16  The patterns are mutually exclusive: no line of the log matches    *)
(* the patterns of two record kinds, so the kind of a line is the same in  *)
(* whatever order the patterns are tried.                                  *)
(***************************************************************************)
C16_AtMostOneKind == \A k \in Positions : Cardinality(Kinds(log[k])) <= 1

\* A "Processor Memory" line has been classified, as the affinity edge only.
C16_Witness ==
  /\ pc # "scan"
  /\ Len(log) = 1
  /\ log[1] = SampleLine("proc_mem_pat")
  /\ Kinds(log[1]) = {"proc_mem_pat"}
  /\ verdicts[1] = "false"

\* The log of the scenario: the affinity edge of processor 7 and memory 3,
\* then the memory, then the processor (of utility processor 1).
ScenarioLog ==
  << Line(<<"Processor", "Memory">>, <<7, 3, 0, 0>>),
     Line(<<"Memory">>, <<3, 0>>),
     Line(<<"Processor">>, <<7, 1, 0>>) >>

\* On log l, the scan defers the edge alone with both declarations
\* committed, and one pass resolves it: the run returns with the processor,
\* the memory and the edge committed.
ScenarioHolds(l) ==
  log = l =>
    /\ (pc = "while" /\ passes = 0) =>
          /\ replay_lines = << ScenarioLog[1] >>
          /\ { <<"processor", 7>>, <<"memory", 3>> } \subseteq state
    /\ pc # "fatal"
    /\ passes <= 1
    /\ pc = "done" =>
          /\ passes = 1
          /\ { <<"processor", 7>>, <<"memory", 3>>, <<"proc_mem", 7, 3>> } \subseteq state

DependsOn(k, j) ==
  /\ j # k
  /\ appended[j] > 0
  /\ Commits(Kind(j), log[j].args) \cap Requires(Kind(k), log[k].args) # {}

Max(S) == IF S = {} THEN 0 ELSE CHOOSE x \in S : \A y \in S : y <= x

\* Length of the longest chain of deferred records that starts at k
RECURSIVE ChainFrom(_, _)
ChainFrom(k, fuel) ==
  IF fuel = 0 THEN 0
  ELSE 1 + Max({ ChainFrom(j, fuel - 1) : j \in { x \in Positions : DependsOn(k, x) } })

LongestChain ==
  Max({ ChainFrom(k, Len(log)) : k \in { x \in Positions : appended[x] > 0 } })

(***************************************************************************)
(* C18  On a run that returns, the number of replay passes is at most the  *)
(* length of the longest dependency chain among the deferred records,      *)
(* repeated lines included.                                                *)
(***************************************************************************)
C18_PassBound == pc = "done" => passes <= LongestChain

\* The replay loop has been entered.
Replaying == pc = "replay" \/ passes >= 1 \/ \E k \in Positions : calls[k] > 0

(***************************************************************************)
(* C19  Scan before replay: once the replay loop is entered the scan has   *)
(* dispatched every line of the log, and everything committed by a line    *)
(* whose call returned true in the scan is in the state object before the  *)
(* first retry.                                                            *)
(***************************************************************************)
C19_ScanBeforeReplay ==
  Replaying =>
    /\ pos = Len(log) + 1
    /\ \A k \in Positions : verdicts[k] # "pending"
    /\ \A k \in Positions :
         verdicts[k] = "true" => Commits(Kind(k), log[k].args) \subseteq state

\* A deferred line is retried after a later line of the log was applied.
C19_Witness ==
  /\ pc = "replay"
  /\ i > 1
  /\ \E j, k \in Positions :
       j < k /\ appended[j] > 0 /\ calls[j] > 0 /\ verdicts[k] = "true"

(***************************************************************************)
(* C20  No way back: a line whose call returned true in the scan is never  *)
(* put in the deferred set and gets no further call; once the scan is      *)
(* over the deferred set gains nothing, it shrinks or stays as it is.      *)
(***************************************************************************)
C20_NoPathBack ==
  /\ [](\A k \in Positions :
          verdicts[k] = "true" =>
             appended[k] = 0 /\ calls[k] = 0 /\ k \notin Range(ids))
  /\ [][pc # "scan" =>
          /\ Len(replay_lines') <= Len(replay_lines)
          /\ Range(replay_lines') \subseteq Range(replay_lines)]_vars

\* A pass is running on a log of which the scan applied a line.
C20_Witness ==
  /\ pc = "replay"
  /\ i > 1
  /\ \E k \in Positions : verdicts[k] = "true"
  /\ \E k \in Positions : calls[k] > 0

(***************************************************************************)
(* C21  Determinism: two runs on the same log issue the same mutation      *)
(* calls in the same order, in the scan and in every pass, and end the     *)
(* same way with the same deferred set; the deferred set is kept in the    *)
(* order of the lines in the log, which is the order of the retries.       *)
(***************************************************************************)
C21_Deterministic ==
  /\ (run = 4 /\ Finished) =>
        /\ trace = first.trace
        /\ pc = first.outcome
        /\ replay_lines = first.deferred
        /\ state = first.state
  /\ \A a, b \in 1..Len(ids) : a < b => ids[a] < ids[b]
  /\ \A a \in 1..Len(ids) : replay_lines[a] = log[ids[a]]

\* The second run has ended after a pass that removed two different lines.
C21_Witness ==
  /\ run = 4
  /\ pc = "done"
  /\ passes >= 1
  /\ Cardinality({ trace[k].args : k \in { j \in 1..Len(trace) : trace[j].phase = "replay" } }) >= 2

(***************************************************************************)
(* C22  The deferred set is modified only when a pass has visited every    *)
(* entry and the no-progress check has passed: it is untouched when a pass *)
(* starts, while the pass iterates and when the pass ends in the stall, so *)
(* on the stall it is as it was when the stalled pass started.             *)
(***************************************************************************)
C22_RemovalAfterPass ==
  /\ [][(pc # "scan" /\ replay_lines' # replay_lines) =>
          /\ PassOver
          /\ to_delete # {}
          /\ pc' = "while"]_vars
  /\ [][(pc' \in {"replay", "fatal"}) => replay_lines' = replay_lines]_vars
  /\ [](pc \in {"replay", "fatal"} => Len(replay_lines) = sizeAtStart)

\* A pass has removed a part of the deferred set.
C22_Witness ==
  /\ pc = "while"
  /\ passes >= 1
  /\ Len(replay_lines) >= 1
  /\ Len(replay_lines) < sizeAtStart

\* The log positions the scan deferred, in the order of the deferred set
Deferred == SelectSeq([k \in 1..Len(log) |-> k], LAMBDA k : appended[k] > 0)

\* What the scan committed
ScanState ==
  UNION { Commits(Kind(k), log[k].args) : k \in { x \in Positions : verdicts[x] = "true" } }

Req(k) == Requires(Kind(k), log[k].args)

Com(k) == Commits(Kind(k), log[k].args)

\* The deferred records are a chain in dependency order: the first
\* references what the scan committed, each other one what the one before
\* it commits.
ForwardChain ==
  /\ Len(Deferred) >= 2
  /\ Req(Deferred[1]) \subseteq ScanState
  /\ \A j \in 2..Len(Deferred) : Req(Deferred[j]) \subseteq Com(Deferred[j - 1])

\* The same chain in reverse order.
ReverseChain ==
  /\ Len(Deferred) >= 2
  /\ Req(Deferred[Len(Deferred)]) \subseteq ScanState
  /\ \A j \in 1..(Len(Deferred) - 1) :
       /\ Req(Deferred[j]) \subseteq Com(Deferred[j + 1])
       /\ Req(Deferred[j]) \cap ScanState = {}

(***************************************************************************)
(* C23  What a retry commits is seen by the retries after it in the same   *)
(* pass: a chain of deferred records in dependency order is resolved in    *)
(* one pass, the same chain in reverse order in one pass per record.       *)
(***************************************************************************)
C23_ChainResolution ==
  Finished =>
    /\ ForwardChain => pc = "done" /\ passes = 1
    /\ ReverseChain => pc = "done" /\ passes = Len(Deferred)

\* The calls the scan issued for the line at log position k
ScanCalls(k) ==
  { j \in 1..Len(trace) : trace[j].phase = "scan" /\ trace[j].id = k }

(***************************************************************************)
(* C24  In the scan a line leads to at most one mutation call: a line no   *)
(* pattern matches to none, a line a pattern matches to the one call of    *)
(* its kind, after which it is finished or put once in the deferred set    *)
(* (then its call returned false); no line is put there twice.             *)
(***************************************************************************)
C24_OneCallPerLine ==
  \A k \in Positions :
     /\ appended[k] <= 1
     /\ verdicts[k] \in {"pending", "unmatched"} =>
           ScanCalls(k) = {} /\ appended[k] = 0
     /\ verdicts[k] \in {"true", "false"} =>
           /\ Cardinality(ScanCalls(k)) = 1
           /\ \A j \in ScanCalls(k) :
                trace[j].kind = Kind(k) /\ trace[j].args = log[k].args
           /\ appended[k] = 1 => verdicts[k] = "false"

\* The scan has applied a line, deferred a line and skipped a line.
C24_Witness ==
  /\ pc = "while"
  /\ passes = 0
  /\ \E a, b, c \in Positions :
       verdicts[a] = "true" /\ appended[b] = 1 /\ verdicts[c] = "unmatched"

\* run_tests has ended, by returning or with an exception.
Ended == driver.pc \in {"returned", "raised"}

(***************************************************************************)
(* C25  When run_tests ends, the temporary directory it created is         *)
(* removed, whether every stage succeeded or a stage raised, unless        *)
(* keep_tmp_dir is set; with keep_tmp_dir it is never removed.             *)
(***************************************************************************)
C25_Cleanup ==
  /\ (Ended /\ driver.tmp # "none") =>
        driver.tmp = IF driver.keep THEN "exists" ELSE "removed"
  /\ driver.keep => driver.tmp # "removed"
  /\ (Ended /\ driver.tmp = "none") => driver.entered = << >>

\* A test stage raised and the directory is gone.
C25_Witness ==
  /\ driver.pc = "raised"
  /\ driver.tmp = "removed"
  /\ Len(driver.entered) >= 2
  /\ driver.cmds >= 2

\* The stages of a run in which nothing fails
Expected == SelectSeq(Stages, LAMBDA x : x = "build" \/ x \in driver.enabled)

IsPrefix(a, b) == Len(a) <= Len(b) /\ \A k \in 1..Len(a) : a[k] = b[k]

(***************************************************************************)
(* C26  Stage order: the stages start in the order build, regent,          *)
(* legion_cxx, fuzzer, realm, external, private, perf, the enabled ones    *)
(* only, each after the one before it is over; once a command has failed   *)
(* no command runs and no stage starts.                                    *)
(***************************************************************************)
C26_StageOrder ==
  /\ [](/\ IsPrefix(driver.entered, Expected)
        /\ IsPrefix(driver.exited, driver.entered)
        /\ Len(driver.entered) - Len(driver.exited)
             = IF driver.pc = "stage" THEN 1 ELSE 0
        /\ driver.error => driver.pc \in {"finally", "raised"}
        /\ driver.pc = "returned" => driver.entered = Expected)
  /\ [][driver.error =>
          /\ driver'.entered = driver.entered
          /\ driver'.cmds = driver.cmds]_vars

\* A command failed in a test stage with an enabled stage still to come.
C26_Witness ==
  /\ driver.pc = "raised"
  /\ Len(driver.entered) >= 2
  /\ Len(driver.entered) < Len(Expected)
  /\ driver.cmds >= 2

====
